---- MODULE Spec2Model ----
(***************************************************************************)
(* A model of the Ampell interpreter (src/ampell.py): the regex lexer      *)
(* (tokenize), the recursive-descent parser (AmpellParser) and the AST     *)
(* walker (the visit methods of AmpellInterpreter).                        *)
(*                                                                         *)
(* Text is a sequence of one-character strings.  The three characters      *)
(* outside Latin-1/ASCII that the language mentions are named atoms.       *)
(* A token is [type, value]; the line and col fields of the source's       *)
(* tokens are only read by the lexer's error message and are left out.     *)
(***************************************************************************)
EXTENDS Integers, Sequences, FiniteSets, TLC

VARIABLES code, pc, stacks, current_stack, variables, functions, frames,
          output, error

vars == <<code, pc, stacks, current_stack, variables, functions, frames,
          output, error>>

(***************************************************************************)
(* Characters                                                              *)
(***************************************************************************)
TIMES == "U+00D7"
DIVIDE == "U+00F7"
MINUS_SIGN == "U+2212"

\* [a-zA-Z_], lower case
Letters == {"a", "b", "c", "d", "e", "f", "g", "h", "i", "j", "k", "l", "m", "n",
            "o", "p", "q", "r", "s", "t", "u", "v", "w", "x", "y", "z", "_"}

Digits == {"0", "1", "2", "3", "4", "5", "6", "7", "8", "9"}

\* \w
WordChars == Letters \cup Digits

\* \s
Whitespace == {" ", "\n", "\t"}

DigitVal(c) ==
    CASE c = "0" -> 0 [] c = "1" -> 1 [] c = "2" -> 2 [] c = "3" -> 3
      [] c = "4" -> 4 [] c = "5" -> 5 [] c = "6" -> 6 [] c = "7" -> 7
      [] c = "8" -> 8 [] c = "9" -> 9

\* code points, as far as the order of two characters goes (str < str)
CharOrder == <<"\t", "\n", " ", "!", "\"", "#", "$", "%", "&", "*", "+", "-",
               ".", "/", "0", "1", "2", "3", "4", "5", "6", "7", "8", "9",
               ":", "<", "=", ">", "?", "@", "[", "\\", "]", "^", "_",
               "a", "b", "c", "d", "e", "f", "g", "h", "i", "j", "k", "l", "m",
               "n", "o", "p", "q", "r", "s", "t", "u", "v", "w", "x", "y", "z",
               "~", TIMES, DIVIDE, MINUS_SIGN>>

Ord(c) == CHOOSE i \in 1..Len(CharOrder) : CharOrder[i] = c

(***************************************************************************)
(* Text helpers (str methods of the host language)                         *)
(***************************************************************************)
\* s[i:j] with 1-based inclusive bounds; empty when the range is empty
Slice(s, i, j) == IF i > j THEN <<>> ELSE SubSeq(s, i, j)

Contains(s, c) == \E i \in 1..Len(s) : s[i] = c

RECURSIVE FindChar(_, _, _)
\* least index >= i of c in s, 0 when there is none
FindChar(s, i, c) ==
    IF i > Len(s) THEN 0
    ELSE IF s[i] = c THEN i
    ELSE FindChar(s, i + 1, c)

RECURSIVE RunEnd(_, _, _)
\* least index >= i whose character is not in S (Len(s)+1 when none)
RunEnd(s, i, S) ==
    IF i > Len(s) THEN i
    ELSE IF s[i] \in S THEN RunEnd(s, i + 1, S)
    ELSE i

RECURSIVE LineEnd(_, _)
\* least index >= i holding a newline (Len(s)+1 when none): where .* stops
LineEnd(s, i) ==
    IF i > Len(s) THEN i
    ELSE IF s[i] = "\n" THEN i
    ELSE LineEnd(s, i + 1)

RECURSIVE LStrip(_)
LStrip(s) ==
    IF s # <<>> /\ Head(s) \in Whitespace THEN LStrip(Tail(s)) ELSE s

RECURSIVE RStrip(_)
RStrip(s) ==
    IF s # <<>> /\ s[Len(s)] \in Whitespace
    THEN RStrip(SubSeq(s, 1, Len(s) - 1)) ELSE s

\* str.strip()
strip(s) == RStrip(LStrip(s))

RECURSIVE split(_, _)
\* str.split(c): the pieces between the occurrences of c
split(s, c) ==
    LET j == FindChar(s, 1, c)
    IN  IF j = 0 THEN <<s>>
        ELSE <<Slice(s, 1, j - 1)>> \o split(Slice(s, j + 1, Len(s)), c)

(***************************************************************************)
(* Lexer: tokenize                                                         *)
(***************************************************************************)
token_specification ==
    <<"PUSH", "STACK_SWITCH", "INPUT", "ASSIGN", "FUNC_DEF_INTRO", "FUNC_CALL",
      "COND_OP", "L_BRACKET", "R_BRACKET", "OPERATOR", "WHITESPACE", "COMMENT",
      "MISMATCH">>

CondOpChars == {"=", "!", "<", ">"}

\* the character class of the OPERATOR pattern
OperatorChars == {"%", "$", "+", "-", TIMES, DIVIDE, "*", "/"}

At(s, i) == IF i >= 1 /\ i <= Len(s) THEN s[i] ELSE "EOF"

\* length of the match of pattern `kind` at position i of s, 0 for no match
MatchLen(kind, s, i) ==
    CASE kind = "PUSH" ->
            IF At(s, i) = "&" /\ At(s, i + 1) = "["
            THEN LET j == FindChar(s, i + 2, "]")
                 IN  IF j = 0 THEN 0 ELSE j - i + 1
            ELSE 0
      [] kind = "STACK_SWITCH" ->
            IF At(s, i) = "\\" /\ At(s, i + 1) = "["
            THEN LET j == FindChar(s, i + 2, "]")
                 IN  IF j = 0 THEN 0 ELSE j - i + 1
            ELSE 0
      [] kind = "INPUT" ->
            IF At(s, i) = "^" /\ At(s, i + 1) = "\""
            THEN LET j == FindChar(s, i + 2, "\"")
                 IN  IF j = 0 \/ At(s, j + 1) # "~" THEN 0
                     ELSE LET k == RunEnd(s, j + 2, WordChars)
                          IN  IF k = j + 2 THEN 0 ELSE k - i
            ELSE 0
      [] kind = "ASSIGN" ->
            IF At(s, i) = ">" /\ At(s, i + 1) = ">" /\ At(s, i + 2) \in Letters
            THEN RunEnd(s, i + 3, WordChars) - i
            ELSE 0
      [] kind = "FUNC_DEF_INTRO" ->
            IF At(s, i) = "@" /\ At(s, i + 1) \in Letters
            THEN RunEnd(s, i + 2, WordChars) - i
            ELSE 0
      [] kind = "FUNC_CALL" ->
            IF At(s, i) \in Letters
            THEN LET k == RunEnd(s, i + 1, WordChars)
                 IN  IF At(s, k) = ":" THEN k - i + 1 ELSE 0
            ELSE 0
      [] kind = "COND_OP" -> IF At(s, i) \in CondOpChars THEN 1 ELSE 0
      [] kind = "L_BRACKET" -> IF At(s, i) = "[" THEN 1 ELSE 0
      [] kind = "R_BRACKET" -> IF At(s, i) = "]" THEN 1 ELSE 0
      [] kind = "OPERATOR" -> IF At(s, i) \in OperatorChars THEN 1 ELSE 0
      [] kind = "WHITESPACE" -> RunEnd(s, i, Whitespace) - i
      [] kind = "COMMENT" ->
            IF At(s, i) = "#" /\ i + 1 <= Len(s) /\ At(s, i + 1) \notin {"[", "\n"}
            THEN LineEnd(s, i + 2) - i
            ELSE 0
      [] kind = "MISMATCH" -> IF At(s, i) # "\n" THEN 1 ELSE 0

\* the alternation takes the first pattern, in order, that matches at i
FirstMatch(s, i) ==
    LET n == CHOOSE m \in 1..Len(token_specification) :
                 /\ MatchLen(token_specification[m], s, i) > 0
                 /\ \A l \in 1..(m - 1) : MatchLen(token_specification[l], s, i) = 0
    IN  [kind |-> token_specification[n],
         len |-> MatchLen(token_specification[n], s, i)]

RECURSIVE tokenize_from(_, _, _)
tokenize_from(s, i, tokens) ==
    IF i > Len(s) THEN [ok |-> TRUE, tokens |-> tokens]
    ELSE LET mo == FirstMatch(s, i)
             value == SubSeq(s, i, i + mo.len - 1)
         IN  IF mo.kind \in {"WHITESPACE", "COMMENT"}
             THEN tokenize_from(s, i + mo.len, tokens)
             ELSE IF mo.kind = "MISMATCH"
             THEN [ok |-> FALSE, tokens |-> <<>>]
             ELSE tokenize_from(s, i + mo.len,
                                Append(tokens, [type |-> mo.kind, value |-> value]))

\* ok = FALSE stands for the RuntimeError the lexer raises
tokenize(s) == tokenize_from(s, 1, <<>>)

(***************************************************************************)
(* AST nodes.  Every node is a record of one shape: node (the class),      *)
(* name (value_str, op, var_name, name, stack_name or condition_type),     *)
(* prompt (InputNode only) and body (ConditionalNode, FunctionDefNode).    *)
(***************************************************************************)
PushNode(value_str) ==
    [node |-> "PushNode", name |-> value_str, prompt |-> <<>>, body |-> <<>>]

OperatorNode(op) ==
    [node |-> "OperatorNode", name |-> op, prompt |-> <<>>, body |-> <<>>]

AssignNode(var_name) ==
    [node |-> "AssignNode", name |-> var_name, prompt |-> <<>>, body |-> <<>>]

InputNode(prompt, var_name) ==
    [node |-> "InputNode", name |-> var_name, prompt |-> prompt, body |-> <<>>]

ConditionalNode(condition_type, body) ==
    [node |-> "ConditionalNode", name |-> condition_type, prompt |-> <<>>,
     body |-> body]

FunctionDefNode(name, body) ==
    [node |-> "FunctionDefNode", name |-> name, prompt |-> <<>>, body |-> body]

FunctionCallNode(name) ==
    [node |-> "FunctionCallNode", name |-> name, prompt |-> <<>>, body |-> <<>>]

StackSwitchNode(stack_name) ==
    [node |-> "StackSwitchNode", name |-> stack_name, prompt |-> <<>>,
     body |-> <<>>]

(***************************************************************************)
(* Parser: AmpellParser.  pos is the 1-based cursor; a result with         *)
(* ok = FALSE stands for the SyntaxError or ValueError the parser raises.  *)
(***************************************************************************)
get_current_token(tokens, pos) ==
    IF pos <= Len(tokens) THEN tokens[pos] ELSE [type |-> "None", value |-> <<>>]

ParseFail(pos, err) ==
    [ok |-> FALSE, statements |-> <<>>, node |-> PushNode(<<>>), pos |-> pos,
     err |-> err]

\* the leaf node of a simple token, delimiters stripped from the lexeme
LeafNode(kind, value) ==
    CASE kind = "PUSH" -> PushNode(Slice(value, 3, Len(value) - 1))
      [] kind = "OPERATOR" -> OperatorNode(value)
      [] kind = "ASSIGN" -> AssignNode(Slice(value, 3, Len(value)))
      [] kind = "FUNC_CALL" -> FunctionCallNode(Slice(value, 1, Len(value) - 1))
      [] kind = "STACK_SWITCH" ->
            StackSwitchNode(strip(Slice(value, 3, Len(value) - 1)))
      [] kind = "INPUT" ->
            LET parts == split(Slice(value, 3, Len(value)), "~")
            IN  InputNode(Slice(parts[1], 1, Len(parts[1]) - 1), parts[2])

LeafKinds == {"PUSH", "OPERATOR", "ASSIGN", "FUNC_CALL", "STACK_SWITCH", "INPUT"}

RECURSIVE parse_from(_, _)
RECURSIVE parse_statement(_, _)

\* AmpellParser.parse entered with the cursor at pos
parse_from(tokens, pos) ==
    IF get_current_token(tokens, pos).type \in {"None", "R_BRACKET"}
    THEN [ok |-> TRUE, statements |-> <<>>, node |-> PushNode(<<>>), pos |-> pos,
          err |-> ""]
    ELSE LET st == parse_statement(tokens, pos)
         IN  IF ~st.ok THEN ParseFail(st.pos, st.err)
             ELSE LET rest == parse_from(tokens, st.pos)
                  IN  IF ~rest.ok THEN ParseFail(rest.pos, rest.err)
                      ELSE [ok |-> TRUE,
                            statements |-> <<st.node>> \o rest.statements,
                            node |-> PushNode(<<>>), pos |-> rest.pos, err |-> ""]

\* a statement parser that leaves the closing bracket of a body unconsumed
parse_statement_KeepsBracket(tokens, pos) ==
    LET token == get_current_token(tokens, pos)
        kind == token.type
        value == token.value
    IN  IF kind \in {"FUNC_DEF_INTRO", "COND_OP"}
        THEN IF get_current_token(tokens, pos + 1).type # "L_BRACKET"
             THEN ParseFail(pos + 1, "SyntaxError")
             ELSE LET body_ast == parse_from(tokens, pos + 2)
                  IN  IF ~body_ast.ok THEN ParseFail(body_ast.pos, body_ast.err)
                      ELSE IF get_current_token(tokens, body_ast.pos).type # "R_BRACKET"
                      THEN ParseFail(body_ast.pos, "SyntaxError")
                      ELSE [ok |-> TRUE, statements |-> <<>>, err |-> "",
                            node |-> IF kind = "FUNC_DEF_INTRO"
                                     THEN FunctionDefNode(Slice(value, 2, Len(value)),
                                                          body_ast.statements)
                                     ELSE ConditionalNode(value, body_ast.statements),
                            pos |-> body_ast.pos]
        ELSE IF kind \in LeafKinds
        THEN [ok |-> TRUE, statements |-> <<>>, node |-> LeafNode(kind, value),
              pos |-> pos + 1, err |-> ""]
        ELSE ParseFail(pos + 1, "ValueError")

parse_statement(tokens, pos) ==
    LET token == get_current_token(tokens, pos)
        kind == token.type
        value == token.value
    IN  IF kind \in {"FUNC_DEF_INTRO", "COND_OP"}
        THEN IF get_current_token(tokens, pos + 1).type # "L_BRACKET"
             THEN ParseFail(pos + 1, "SyntaxError")
             ELSE LET body_ast == parse_from(tokens, pos + 2)
                  IN  IF ~body_ast.ok THEN ParseFail(body_ast.pos, body_ast.err)
                      ELSE IF get_current_token(tokens, body_ast.pos).type # "R_BRACKET"
                      THEN ParseFail(body_ast.pos, "SyntaxError")
                      ELSE [ok |-> TRUE, statements |-> <<>>, err |-> "",
                            node |-> IF kind = "FUNC_DEF_INTRO"
                                     THEN FunctionDefNode(Slice(value, 2, Len(value)),
                                                          body_ast.statements)
                                     ELSE ConditionalNode(value, body_ast.statements),
                            pos |-> body_ast.pos + 1]
        ELSE IF kind \in LeafKinds
        THEN [ok |-> TRUE, statements |-> <<>>, node |-> LeafNode(kind, value),
              pos |-> pos + 1, err |-> ""]
        ELSE ParseFail(pos + 1, "ValueError")

\* AmpellParser(tokens).parse(): the cursor starts at the first token
parse(tokens) == parse_from(tokens, 1)

(***************************************************************************)
(* Values: integer, floating-point, text.  A floating-point value is the   *)
(* fraction n/d in lowest terms with d > 0 (exact where the host's         *)
(* double is exact; the modelled programs stay in that range).             *)
(***************************************************************************)
Abs(n) == IF n < 0 THEN -n ELSE n

RECURSIVE GCD(_, _)
GCD(a, b) == IF b = 0 THEN a ELSE GCD(b, a % b)

IntV(n) == [k |-> "int", n |-> n, d |-> 1, s |-> <<>>]

FloatV(n, d) ==
    LET g == GCD(Abs(n), Abs(d))
        sgn == IF d < 0 THEN -1 ELSE 1
    IN  [k |-> "float", n |-> sgn * (n \div g), d |-> sgn * (d \div g), s |-> <<>>]

StrV(s) == [k |-> "str", n |-> 0, d |-> 1, s |-> s]

IsNum(v) == v.k \in {"int", "float"}

RECURSIVE Pow10(_)
Pow10(n) == IF n = 0 THEN 1 ELSE 10 * Pow10(n - 1)

RECURSIVE DigitsValue(_)
\* the value of a digit string, underscores skipped
DigitsValue(s) ==
    IF s = <<>> THEN 0
    ELSE IF s[Len(s)] = "_" THEN DigitsValue(SubSeq(s, 1, Len(s) - 1))
    ELSE 10 * DigitsValue(SubSeq(s, 1, Len(s) - 1)) + DigitVal(s[Len(s)])

DigitCount(s) == Cardinality({i \in 1..Len(s) : s[i] \in Digits})

\* digits, single underscores allowed between two digits
IsDigitGroup(s) ==
    /\ s # <<>>
    /\ \A i \in 1..Len(s) : s[i] \in Digits \cup {"_"}
    /\ s[1] # "_" /\ s[Len(s)] # "_"
    /\ \A i \in 1..(Len(s) - 1) : ~(s[i] = "_" /\ s[i + 1] = "_")

Unsigned(s) == IF s # <<>> /\ s[1] \in {"+", "-"} THEN Tail(s) ELSE s

Sign(s) == IF s # <<>> /\ s[1] = "-" THEN -1 ELSE 1

\* int(s) succeeds
IsIntText(s) == IsDigitGroup(Unsigned(strip(s)))

\* float(s) succeeds, for s holding a "." (no exponent, inf or nan forms)
IsFloatText(s) ==
    LET u == Unsigned(strip(s))
        j == FindChar(u, 1, ".")
        ip == Slice(u, 1, j - 1)
        fp == Slice(u, j + 1, Len(u))
    IN  /\ j > 0
        /\ ip = <<>> \/ IsDigitGroup(ip)
        /\ fp = <<>> \/ IsDigitGroup(fp)
        /\ ~(ip = <<>> /\ fp = <<>>)

\* float(s) if '.' in s else int(s): whether it raises ValueError
IsNumberText(s) == IF Contains(s, ".") THEN IsFloatText(s) ELSE IsIntText(s)

NumberOf(s) ==
    LET t == strip(s)
        u == Unsigned(t)
    IN  IF Contains(s, ".")
        THEN LET j == FindChar(u, 1, ".")
                 ip == Slice(u, 1, j - 1)
                 fp == Slice(u, j + 1, Len(u))
                 den == Pow10(DigitCount(fp))
             IN  FloatV(Sign(t) * (DigitsValue(ip) * den + DigitsValue(fp)), den)
        ELSE IntV(Sign(t) * DigitsValue(u))

\* AmpellInterpreter.parse_value
parse_value(value_str, vars_) ==
    LET v == strip(value_str)
    IN  IF v \in DOMAIN vars_ THEN vars_[v]
        ELSE IF IsNumberText(v) THEN NumberOf(v)
        ELSE IF v # <<>> /\ v[1] = "\"" /\ v[Len(v)] = "\""
        THEN StrV(Slice(v, 2, Len(v) - 1))
        ELSE StrV(v)

(***************************************************************************)
(* Host operators on values: ==, <, >, +, -, *, /                          *)
(***************************************************************************)
\* a == b
PyEq(a, b) ==
    IF IsNum(a) /\ IsNum(b) THEN a.n * b.d = b.n * a.d
    ELSE IF a.k = "str" /\ b.k = "str" THEN a.s = b.s
    ELSE FALSE

RECURSIVE StrLt(_, _)
\* lexicographic order of two texts by code point
StrLt(s, t) ==
    IF t = <<>> THEN FALSE
    ELSE IF s = <<>> THEN TRUE
    ELSE IF s[1] = t[1] THEN StrLt(Tail(s), Tail(t))
    ELSE Ord(s[1]) < Ord(t[1])

\* a < b and a > b raise TypeError unless both are numbers or both are text
Orderable(a, b) == (IsNum(a) /\ IsNum(b)) \/ (a.k = "str" /\ b.k = "str")

\* a < b, for Orderable(a, b)
PyLt(a, b) == IF IsNum(a) THEN a.n * b.d < b.n * a.d ELSE StrLt(a.s, b.s)

RECURSIVE Repeat(_, _)
\* text * n
Repeat(s, n) == IF n <= 0 THEN <<>> ELSE s \o Repeat(s, n - 1)

\* int op int stays int, anything with a float is a float
NumResult(a, b, n, d) ==
    IF a.k = "int" /\ b.k = "int" THEN IntV(n \div d) ELSE FloatV(n, d)

\* whether `a op b` evaluates (TRUE) or raises TypeError (FALSE); b # 0 for "/"
Computes(op, a, b) ==
    CASE op = "+" -> (IsNum(a) /\ IsNum(b)) \/ (a.k = "str" /\ b.k = "str")
      [] op \in {"-", MINUS_SIGN} -> IsNum(a) /\ IsNum(b)
      [] op \in {"*", TIMES} ->
            \/ IsNum(a) /\ IsNum(b)
            \/ a.k = "str" /\ b.k = "int"
            \/ a.k = "int" /\ b.k = "str"
      [] op \in {"/", DIVIDE} -> IsNum(a) /\ IsNum(b)
      [] OTHER -> FALSE

\* the value of `a op b`, for Computes(op, a, b)
Compute(op, a, b) ==
    CASE op = "+" ->
            IF a.k = "str" THEN StrV(a.s \o b.s)
            ELSE NumResult(a, b, a.n * b.d + b.n * a.d, a.d * b.d)
      [] op \in {"-", MINUS_SIGN} ->
            NumResult(a, b, a.n * b.d - b.n * a.d, a.d * b.d)
      [] op \in {"*", TIMES} ->
            IF a.k = "str" THEN StrV(Repeat(a.s, b.n))
            ELSE IF b.k = "str" THEN StrV(Repeat(b.s, a.n))
            ELSE NumResult(a, b, a.n * b.n, a.d * b.d)
      [] op \in {"/", DIVIDE} -> FloatV(a.n * b.d, a.d * b.n)

(***************************************************************************)
(* Runtime state and the walker's evaluation rules.  Each visit_ operator  *)
(* maps the runtime state rt = [stacks, current_stack, variables,          *)
(* functions, output] to the outcome of visiting one node: the new         *)
(* runtime state, the body to walk next (enter) and the exception raised   *)
(* (err, "" for none).                                                     *)
(***************************************************************************)
MAIN == <<"m", "a", "i", "n">>

DIV_BY_ZERO == "Error: Division by zero"

NOT_DEFINED == "Error: Function not defined"

\* dict[key] = value
Put(dict, key, value) ==
    [x \in DOMAIN dict \cup {key} |-> IF x = key THEN value ELSE dict[x]]

\* the `stack` property
ActiveStack(rt) == rt.stacks[rt.current_stack]

\* a change that always lands on "main"
WithStack_Main(rt, st) == [rt EXCEPT !.stacks = [@ EXCEPT ![MAIN] = st]]

\* an in-place change of the list the `stack` property returns
WithStack(rt, st) == [rt EXCEPT !.stacks = [@ EXCEPT ![rt.current_stack] = st]]

Printed(rt, t, v) == [rt EXCEPT !.output = Append(@, [t |-> t, v |-> v])]

Outcome(rt) == [rt |-> rt, enter |-> FALSE, body |-> <<>>, fn |-> <<>>, err |-> ""]

Enter(rt, body, fn) ==
    [rt |-> rt, enter |-> TRUE, body |-> body, fn |-> fn, err |-> ""]

Raise(rt, err) ==
    [rt |-> rt, enter |-> FALSE, body |-> <<>>, fn |-> <<>>, err |-> err]

visit_PushNode(rt, node) ==
    LET value == parse_value(node.name, rt.variables)
    IN  Outcome(WithStack(rt, Append(ActiveStack(rt), value)))

\* an assignment that takes the top value off the stack
visit_AssignNode_Pop(rt, node) ==
    LET stack == ActiveStack(rt)
    IN  IF stack # <<>>
        THEN Outcome(WithStack([rt EXCEPT !.variables = Put(@, node.name, stack[Len(stack)])],
                               Slice(stack, 1, Len(stack) - 1)))
        ELSE Outcome(rt)

visit_AssignNode(rt, node) ==
    LET stack == ActiveStack(rt)
    IN  IF stack # <<>>
        THEN Outcome([rt EXCEPT !.variables = Put(@, node.name, stack[Len(stack)])])
        ELSE Outcome(rt)

\* response is the line input() returns
visit_InputNode(rt, node, response) ==
    LET shown == Printed(rt, "prompt", StrV(node.prompt))
        value == IF IsNumberText(response) THEN NumberOf(response)
                 ELSE StrV(response)
    IN  Outcome([shown EXCEPT !.variables = Put(@, node.name, value)])

\* a switch that activates the name without creating its stack
visit_StackSwitchNode_NoCreate(rt, node) ==
    Outcome([rt EXCEPT !.current_stack = IF node.name # <<>> THEN node.name ELSE MAIN])

visit_StackSwitchNode(rt, node) ==
    LET stack_name == IF node.name # <<>> THEN node.name ELSE MAIN
        created == IF stack_name \notin DOMAIN rt.stacks
                   THEN Put(rt.stacks, stack_name, <<>>)
                   ELSE rt.stacks
    IN  Outcome([rt EXCEPT !.stacks = created, !.current_stack = stack_name])

\* a definition that also runs the body it stores
visit_FunctionDefNode_RunsBody(rt, node) ==
    Enter([rt EXCEPT !.functions = Put(@, node.name, node.body)], node.body, node.name)

visit_FunctionDefNode(rt, node) ==
    Outcome([rt EXCEPT !.functions = Put(@, node.name, node.body)])

\* a call of an unknown name that also binds the name to an empty body
visit_FunctionCallNode_AutoDefine(rt, node) ==
    IF node.name \in DOMAIN rt.functions
    THEN Enter(rt, rt.functions[node.name], node.name)
    ELSE Outcome([Printed(rt, NOT_DEFINED, StrV(node.name))
                    EXCEPT !.functions = Put(@, node.name, <<>>)])

visit_FunctionCallNode(rt, node) ==
    IF node.name \in DOMAIN rt.functions
    THEN Enter(rt, rt.functions[node.name], node.name)
    ELSE Outcome(Printed(rt, NOT_DEFINED, StrV(node.name)))

visit_ConditionalNode(rt, node) ==
    LET stack == ActiveStack(rt)
        b == stack[Len(stack)]
        a == stack[Len(stack) - 1]
        ct == node.name
    IN  IF Len(stack) < 2 THEN Outcome(rt)
        ELSE IF ct = <<"=">> THEN (IF PyEq(a, b) THEN Enter(rt, node.body, <<>>)
                               ELSE Outcome(rt))
        ELSE IF ct = <<"!">> THEN (IF ~PyEq(a, b) THEN Enter(rt, node.body, <<>>)
                               ELSE Outcome(rt))
        ELSE IF ~Orderable(a, b) THEN Raise(rt, "TypeError")
        ELSE IF ct = <<"<">> THEN (IF PyLt(a, b) THEN Enter(rt, node.body, <<>>)
                               ELSE Outcome(rt))
        ELSE IF ct = <<">">> THEN (IF PyLt(b, a) THEN Enter(rt, node.body, <<>>)
                               ELSE Outcome(rt))
        ELSE Outcome(rt)

\* the operands pushed back in the order they were popped
Restored_Swapped(rest, a, b) == rest \o <<b, a>>

\* the stack after a division by zero: a and b pushed back
Restored(rest, a, b) == rest \o <<a, b>>

\* an operator whose print takes the printed value off the stack
visit_OperatorNode_PrintPops(rt, node) ==
    LET op == node.name[1]
        stack == ActiveStack(rt)
        n == Len(stack)
        b == stack[n]
        a == stack[n - 1]
        rest == Slice(stack, 1, n - 2)
        popped == WithStack(rt, rest)
    IN  IF op = "%"
        THEN (IF n > 0 THEN Outcome(WithStack(rt, Slice(stack, 1, n - 1)))
              ELSE Outcome(rt))
        ELSE IF op = "$"
        THEN (IF n > 0
              THEN Outcome(WithStack(Printed(rt, "print", stack[n]),
                                     Slice(stack, 1, n - 1)))
              ELSE Outcome(rt))
        ELSE IF n < 2 THEN Outcome(rt)
        ELSE IF op \in {"/", DIVIDE} /\ PyEq(b, IntV(0))
        THEN Outcome(WithStack(Printed(rt, DIV_BY_ZERO, StrV(<<>>)),
                               Restored(rest, a, b)))
        ELSE IF op \notin {"+", "-", MINUS_SIGN, "*", TIMES, "/", DIVIDE}
        THEN Outcome(popped)
        ELSE IF Computes(op, a, b)
        THEN Outcome(WithStack(rt, Append(rest, Compute(op, a, b))))
        ELSE Raise(popped, "TypeError")

visit_OperatorNode(rt, node) ==
    LET op == node.name[1]
        stack == ActiveStack(rt)
        n == Len(stack)
        b == stack[n]
        a == stack[n - 1]
        rest == Slice(stack, 1, n - 2)
        popped == WithStack(rt, rest)
    IN  IF op = "%"
        THEN (IF n > 0 THEN Outcome(WithStack(rt, Slice(stack, 1, n - 1)))
              ELSE Outcome(rt))
        ELSE IF op = "$"
        THEN (IF n > 0 THEN Outcome(Printed(rt, "print", stack[n])) ELSE Outcome(rt))
        ELSE IF n < 2 THEN Outcome(rt)
        ELSE IF op \in {"/", DIVIDE} /\ PyEq(b, IntV(0))
        THEN Outcome(WithStack(Printed(rt, DIV_BY_ZERO, StrV(<<>>)),
                               Restored(rest, a, b)))
        ELSE IF op \notin {"+", "-", MINUS_SIGN, "*", TIMES, "/", DIVIDE}
        THEN Outcome(popped)
        ELSE IF Computes(op, a, b)
        THEN Outcome(WithStack(rt, Append(rest, Compute(op, a, b))))
        ELSE Raise(popped, "TypeError")

(***************************************************************************)
(* The state machine.  frames is the walker's call stack: one frame per    *)
(* statement list being walked (the program, a function body, a            *)
(* conditional body), each with the index of its next statement and, for   *)
(* a function body, the called name.                                       *)
(***************************************************************************)
\* deepest nesting of statement lists the host's recursion limit allows
MaxDepth == 4

\* number of leading pushes of a generated program
MaxPush == 2

\* number of statements after the pushes of a generated program
MaxStmts == 1

\* lines the console can answer an InputNode with
Responses == {<<"7">>, <<"1", ".", "5">>, <<"h", "i">>}

RT == [stacks |-> stacks, current_stack |-> current_stack,
       variables |-> variables, functions |-> functions, output |-> output]

Top == frames[Len(frames)]

\* a loop that looks the called name up again at every statement
FrameBody_Relookup(f, fns) == IF f.fn \in DOMAIN fns THEN fns[f.fn] ELSE f.body

\* the list a frame's for loop iterates over
FrameBody(f, fns) == f.body

HasNode ==
    /\ pc = "running"
    /\ frames # <<>>
    /\ Top.idx <= Len(FrameBody(Top, functions))

\* the statement the walker visits next
CurrentNode == FrameBody(Top, functions)[Top.idx]

Visiting(class) ==
    /\ HasNode
    /\ Len(frames) <= MaxDepth
    /\ CurrentNode.node = class

\* a walker whose loop does not move on to the next statement
Advanced_Stays == frames

Advanced == [frames EXCEPT ![Len(frames)].idx = @ + 1]

\* the state after a visit with outcome o
Apply(o) ==
    /\ stacks' = o.rt.stacks
    /\ current_stack' = o.rt.current_stack
    /\ variables' = o.rt.variables
    /\ functions' = o.rt.functions
    /\ output' = o.rt.output
    /\ IF o.err # ""
       THEN /\ pc' = "failed"
            /\ error' = o.err
            /\ frames' = <<>>
       ELSE /\ pc' = "running"
            /\ error' = error
            /\ frames' = IF o.enter
                         THEN Append(Advanced, [body |-> o.body, idx |-> 1, fn |-> o.fn])
                         ELSE Advanced
    /\ UNCHANGED code

InitRuntime ==
    /\ pc = "start"
    /\ stacks = (MAIN :> <<>>)
    /\ current_stack = MAIN
    /\ variables = <<>>
    /\ functions = <<>>
    /\ frames = <<>>
    /\ output = <<>>
    /\ error = ""

\* AmpellInterpreter.execute up to the call of visit(ast)
Execute ==
    /\ pc = "start"
    /\ LET lexed == tokenize(code)
           ast == parse(lexed.tokens)
       IN  IF ~lexed.ok
           THEN pc' = "failed" /\ error' = "RuntimeError" /\ frames' = <<>>
           ELSE IF ~ast.ok
           THEN pc' = "failed" /\ error' = ast.err /\ frames' = <<>>
           ELSE /\ pc' = "running"
                /\ error' = error
                /\ frames' = <<[body |-> ast.statements, idx |-> 1, fn |-> <<>>]>>
    /\ UNCHANGED <<code, stacks, current_stack, variables, functions, output>>

Push == Visiting("PushNode") /\ Apply(visit_PushNode(RT, CurrentNode))

Assign == Visiting("AssignNode") /\ Apply(visit_AssignNode(RT, CurrentNode))

Input ==
    /\ Visiting("InputNode")
    /\ \E response \in Responses : Apply(visit_InputNode(RT, CurrentNode, response))

StackSwitch ==
    Visiting("StackSwitchNode") /\ Apply(visit_StackSwitchNode(RT, CurrentNode))

FunctionDef ==
    Visiting("FunctionDefNode") /\ Apply(visit_FunctionDefNode(RT, CurrentNode))

FunctionCall ==
    Visiting("FunctionCallNode") /\ Apply(visit_FunctionCallNode(RT, CurrentNode))

Conditional ==
    Visiting("ConditionalNode") /\ Apply(visit_ConditionalNode(RT, CurrentNode))

Operator ==
    Visiting("OperatorNode") /\ Apply(visit_OperatorNode(RT, CurrentNode))

\* a return that puts the active stack back to "main"
Return_RestoresStack ==
    /\ pc = "running"
    /\ frames # <<>>
    /\ Top.idx > Len(FrameBody(Top, functions))
    /\ frames' = SubSeq(frames, 1, Len(frames) - 1)
    /\ pc' = IF Len(frames) = 1 THEN "done" ELSE "running"
    /\ current_stack' = MAIN
    /\ UNCHANGED <<code, stacks, variables, functions, output, error>>

\* a statement list is exhausted: its for loop ends and the visit returns
Return ==
    /\ pc = "running"
    /\ frames # <<>>
    /\ Top.idx > Len(FrameBody(Top, functions))
    /\ frames' = SubSeq(frames, 1, Len(frames) - 1)
    /\ pc' = IF Len(frames) = 1 THEN "done" ELSE "running"
    /\ UNCHANGED <<code, stacks, current_stack, variables, functions, output, error>>

\* the host refuses a visit nested deeper than its recursion limit
RecursionError ==
    /\ HasNode
    /\ Len(frames) > MaxDepth
    /\ pc' = "failed"
    /\ error' = "RecursionError"
    /\ frames' = <<>>
    /\ UNCHANGED <<code, stacks, current_stack, variables, functions, output>>

Next ==
    \/ Execute
    \/ Push
    \/ Assign
    \/ Input
    \/ StackSwitch
    \/ FunctionDef
    \/ FunctionCall
    \/ Conditional
    \/ Operator
    \/ Return
    \/ RecursionError

(***************************************************************************)
(* Programs.  A run starts from a source text: one of the named programs   *)
(* or up to MaxPush pushes followed by up to MaxStmts statements.          *)
(***************************************************************************)
\* @f[@f[&[2]]&[1]]f:f:   f redefines itself while it runs
RedefineInCall ==
    <<"@", "f", "[", "@", "f", "[", "&", "[", "2", "]", "]", "&", "[", "1", "]", "]", "f", ":", "f", ":">>

\* &[3]@f[>>x&[4]]f:&[x]+   an assignment made inside a function body
AssignInFunction ==
    <<"&", "[", "3", "]", "@", "f", "[", ">", ">", "x", "&", "[", "4", "]", "]", "f", ":", "&", "[", "x", "]", "+">>

\* ^"a~b"~x   an input whose prompt holds a "~"
TildePrompt ==
    <<"^", "\"", "a", "~", "b", "\"", "~", "x">>

\* &[1]#\n&[2]   a comment with nothing after the "#"
EmptyComment ==
    <<"&", "[", "1", "]", "#", "\n", "&", "[", "2", "]">>

\* &[3]&[4]−$   the minus sign alias
MinusSignProgram ==
    <<"&", "[", "3", "]", "&", "[", "4", "]", MINUS_SIGN, "$">>

\* @f[&[2]*\[s]>>x]&[5]f:&[x]   a body that switches the stack and binds a variable
SwitchThenCall ==
    <<"@", "f", "[", "&", "[", "2", "]", "*", "\\", "[", "s", "]", ">", ">", "x", "]", "&", "[", "5", "]", "f", ":", "&", "[", "x", "]">>

\* push literals of each value kind
PushFragments ==
    { \* &[1]
      <<"&", "[", "1", "]">>,
      \* &[0]
      <<"&", "[", "0", "]">>,
      \* &[1.5]
      <<"&", "[", "1", ".", "5", "]">>,
      \* &["a"]
      <<"&", "[", "\"", "a", "\"", "]">> }

\* one statement of each form, and malformed ones
StatementFragments ==
    { \* +
      <<"+">>,
      \* -
      <<"-">>,
      \* *
      <<"*">>,
      \* /
      <<"/">>,
      \* ×
      <<TIMES>>,
      \* ÷
      <<DIVIDE>>,
      \* %
      <<"%">>,
      \* $
      <<"$">>,
      \* >>x
      <<">", ">", "x">>,
      \* ^"p"~x
      <<"^", "\"", "p", "\"", "~", "x">>,
      \* &[x]
      <<"&", "[", "x", "]">>,
      \* \[s]
      <<"\\", "[", "s", "]">>,
      \* \[]
      <<"\\", "[", "]">>,
      \* @f[&[1]]
      <<"@", "f", "[", "&", "[", "1", "]", "]">>,
      \* f:
      <<"f", ":">>,
      \* =[$]
      <<"=", "[", "$", "]">>,
      \* ![$]
      <<"!", "[", "$", "]">>,
      \* <[$]
      <<"<", "[", "$", "]">>,
      \* >[$]
      <<">", "[", "$", "]">>,
      \* ]
      <<"]">>,
      \* [
      <<"[">>,
      \* @f
      <<"@", "f">>,
      \* =[&[1]
      <<"=", "[", "&", "[", "1", "]">>,
      \* the minus sign alias
      <<MINUS_SIGN>>,
      \* #
      <<"#">> }

\* the scenarios of the specification and further programs
Scenarios ==
    { \* &[3]&[4]+$   scenario A
      <<"&", "[", "3", "]", "&", "[", "4", "]", "+", "$">>,
      \* &[5]&[0]÷   scenario B
      <<"&", "[", "5", "]", "&", "[", "0", "]", DIVIDE>>,
      \* @dbl[&[2]*]&[10]dbl:$   scenario C
      <<"@", "d", "b", "l", "[", "&", "[", "2", "]", "*", "]", "&", "[", "1", "0", "]", "d", "b", "l", ":", "$">>,
      \* &[1]&[1]=[&["eq"]$]   scenario D
      <<"&", "[", "1", "]", "&", "[", "1", "]", "=", "[", "&", "[", "\"", "e", "q", "\"", "]", "$", "]">>,
      \* \[scratch]&[9]\[main]&[1]   scenario E
      <<"\\", "[", "s", "c", "r", "a", "t", "c", "h", "]", "&", "[", "9", "]", "\\", "[", "m", "a", "i", "n", "]", "&", "[", "1", "]">>,
      \* &[1]]&[2]   a ] that closes no body
      <<"&", "[", "1", "]", "]", "&", "[", "2", "]">>,
      \* &[1]@f&[2]   a definition intro with no [
      <<"&", "[", "1", "]", "@", "f", "&", "[", "2", "]">>,
      \* &[1]&[1]=[&[2]   a conditional body never closed
      <<"&", "[", "1", "]", "&", "[", "1", "]", "=", "[", "&", "[", "2", "]">>,
      \* &[1][&[2]]   a [ in statement position
      <<"&", "[", "1", "]", "[", "&", "[", "2", "]", "]">>,
      \* &[1]?   a character no pattern accepts
      <<"&", "[", "1", "]", "?">>,
      \* &[1]&["a"]<[$]&[2]   ordering a number and a text
      <<"&", "[", "1", "]", "&", "[", "\"", "a", "\"", "]", "<", "[", "$", "]", "&", "[", "2", "]">>,
      \* &["a"]&[1]-$   subtracting from a text
      <<"&", "[", "\"", "a", "\"", "]", "&", "[", "1", "]", "-", "$">>,
      \* &[2]&["a"]*$   a text repeated
      <<"&", "[", "2", "]", "&", "[", "\"", "a", "\"", "]", "*", "$">>,
      \* f:@f[&[1]]f:   a call before and after the definition
      <<"f", ":", "@", "f", "[", "&", "[", "1", "]", "]", "f", ":">>,
      \* @f[&[1]]@f[&[2]]f:   a redefinition before the call
      <<"@", "f", "[", "&", "[", "1", "]", "]", "@", "f", "[", "&", "[", "2", "]", "]", "f", ":">>,
      \* a redefinition during the call
      RedefineInCall,
      \* an assignment made inside a function body
      AssignInFunction,
      \* an input whose prompt holds a "~"
      TildePrompt,
      \* a comment with nothing after the "#"
      EmptyComment,
      \* the minus sign alias
      MinusSignProgram,
      \* a body that switches the stack and binds a variable
      SwitchThenCall,
      \* @f[&[1]f:]f:   unbounded recursion
      <<"@", "f", "[", "&", "[", "1", "]", "f", ":", "]", "f", ":">>,
      \* &[7]>>x\[s]&[x]>>y\[]%&[y]   variables across stacks
      <<"&", "[", "7", "]", ">", ">", "x", "\\", "[", "s", "]", "&", "[", "x", "]", ">", ">", "y", "\\", "[", "]", "%", "&", "[", "y", "]">>,
      \* ^"p"~5&[5]   an input variable named like a number
      <<"^", "\"", "p", "\"", "~", "5", "&", "[", "5", "]">>,
      \* ^"p"~x&[x]&[7]=[$]   an input pushed and compared
      <<"^", "\"", "p", "\"", "~", "x", "&", "[", "x", "]", "&", "[", "7", "]", "=", "[", "$", "]">>,
      \* &[1]&[2]<[&[3]>[$]]   nested conditionals
      <<"&", "[", "1", "]", "&", "[", "2", "]", "<", "[", "&", "[", "3", "]", ">", "[", "$", "]", "]">>,
      \* # c\n&[1] &[2]	+   a comment and whitespace
      <<"#", " ", "c", "\n", "&", "[", "1", "]", " ", "&", "[", "2", "]", "\t", "+">> }

RECURSIVE Concats(_, _)
\* the concatenations of at most n texts of F
Concats(F, n) ==
    IF n = 0 THEN {<<>>}
    ELSE LET P == Concats(F, n - 1)
         IN  P \cup {p \o f : p \in P, f \in F}

Sources ==
    Scenarios \cup
    {p \o t : p \in Concats(PushFragments, MaxPush),
              t \in Concats(StatementFragments, MaxStmts)}

Init == code \in Sources /\ InitRuntime

Spec == Init /\ [][Next]_vars


(***************************************************************************)
(* Properties                                                              *)
(***************************************************************************)
\* the active stack in the current state and in the next one
Stack == stacks[current_stack]

StackAfter == stacks'[current_stack']

TopOf(st) == st[Len(st)]

\* the walker goes on: the visited statement is done and the next one is due
Continues == pc' = "running" /\ error' = error /\ frames' = Advanced

IsZero(v) == IsNum(v) /\ v.n = 0

\* C1: the stack mapping always holds "main" and the active stack's name; no
\* step removes a stack; a StackSwitch to an unseen name adds exactly that name,
\* empty, and makes it active.
C1_StacksExist ==
    /\ [](MAIN \in DOMAIN stacks /\ current_stack \in DOMAIN stacks)
    /\ [][/\ DOMAIN stacks \subseteq DOMAIN stacks'
          /\ (DOMAIN stacks' # DOMAIN stacks) =>
                /\ Visiting("StackSwitchNode")
                /\ DOMAIN stacks' = DOMAIN stacks \cup {current_stack'}
                /\ stacks'[current_stack'] = <<>>
                /\ current_stack' = CurrentNode.name]_vars

\* a stack other than "main" was created by a switch and is the active one
C1_Witness ==
    /\ pc = "running"
    /\ current_stack # MAIN
    /\ Cardinality(DOMAIN stacks) = 2
    /\ stacks[current_stack] = <<>>

\* C2: a division whose top operand is zero, on a stack of two values or more,
\* reports the error, leaves every stack as it was (a below b), changes nothing
\* else and goes on with the next statement.
C2_DivisionByZero ==
    [][(/\ Visiting("OperatorNode")
        /\ CurrentNode.name[1] \in {"/", DIVIDE}
        /\ Len(Stack) >= 2
        /\ IsZero(TopOf(Stack)))
       => (/\ stacks' = stacks
           /\ output' = Append(output, [t |-> DIV_BY_ZERO, v |-> StrV(<<>>)])
           /\ current_stack' = current_stack
           /\ variables' = variables
           /\ functions' = functions
           /\ Continues)]_vars

\* a division by zero was reported with two different operands on the stack
C2_Witness ==
    /\ output # <<>>
    /\ output[Len(output)].t = DIV_BY_ZERO
    /\ Len(Stack) >= 2
    /\ IsZero(TopOf(Stack))
    /\ ~IsZero(Stack[Len(Stack) - 1])

ArithmeticOps == {"+", "-", MINUS_SIGN, "*", TIMES, "/", DIVIDE}

\* r is the number a op b, for numbers a and b (b nonzero for a division)
ExactResult(op, a, b, r) ==
    /\ IsNum(r)
    /\ CASE op = "+" -> r.n * (a.d * b.d) = (a.n * b.d + b.n * a.d) * r.d
         [] op \in {"-", MINUS_SIGN} ->
                r.n * (a.d * b.d) = (a.n * b.d - b.n * a.d) * r.d
         [] op \in {"*", TIMES} -> r.n * (a.d * b.d) = (a.n * b.n) * r.d
         [] op \in {"/", DIVIDE} -> r.n * (a.d * b.n) = (a.n * b.d) * r.d

\* the step C3 describes for an arithmetic operator on a stack of size n
ArithmeticStep ==
    LET op == CurrentNode.name[1]
        n == Len(Stack)
        b == Stack[n]
        a == Stack[n - 1]
    IN  IF n < 2 THEN stacks' = stacks
        ELSE IF op \in {"/", DIVIDE} /\ IsZero(b) THEN TRUE
        ELSE /\ current_stack' = current_stack
             /\ Len(StackAfter) = n - 1
             /\ Slice(StackAfter, 1, n - 2) = Slice(Stack, 1, n - 2)
             /\ (IsNum(a) /\ IsNum(b)) => ExactResult(op, a, b, TopOf(StackAfter))

\* C3: an arithmetic operator on a stack of size n >= 2 (no division by zero)
\* removes the two top values and pushes exactly one result, a op b with a the
\* second-from-top and b the top, leaving the values below; on n < 2 it changes
\* nothing.
C3_Arithmetic ==
    [][(Visiting("OperatorNode") /\ CurrentNode.name[1] \in ArithmeticOps)
       => ArithmeticStep]_vars

RECURSIVE MalformedFrom(_, _, _)
\* the token sequence from position i on, read at nesting depth `depth`, has a
\* definition or conditional intro not followed by "[", a "[" or a "]" in
\* statement position, or a body that is never closed
MalformedFrom(tokens, i, depth) ==
    IF i > Len(tokens) THEN depth > 0
    ELSE LET kind == tokens[i].type
         IN  IF kind \in {"FUNC_DEF_INTRO", "COND_OP"}
             THEN \/ i + 1 > Len(tokens)
                  \/ tokens[i + 1].type # "L_BRACKET"
                  \/ MalformedFrom(tokens, i + 2, depth + 1)
             ELSE IF kind = "L_BRACKET" THEN TRUE
             ELSE IF kind = "R_BRACKET"
             THEN depth = 0 \/ MalformedFrom(tokens, i + 1, depth - 1)
             ELSE MalformedFrom(tokens, i + 1, depth)

Malformed(tokens) == MalformedFrom(tokens, 1, 0)

RuntimeUntouched ==
    /\ stacks = (MAIN :> <<>>)
    /\ current_stack = MAIN
    /\ variables = <<>>
    /\ functions = <<>>
    /\ output = <<>>

\* C4: a structurally malformed token sequence makes execute() fail before the
\* walker starts: no statement is evaluated and the runtime state stays initial.
C4_AllOrNothing ==
    (/\ pc # "start"
     /\ tokenize(code).ok
     /\ Malformed(tokenize(code).tokens))
    => (pc = "failed" /\ RuntimeUntouched)

\* C5: evaluating a Conditional never aborts the run, whatever the kinds of the
\* two top values: the walker goes on with the body or with the next statement.
C5_ConditionalNeverAborts ==
    [][Visiting("ConditionalNode") => pc' = "running"]_vars

\* C6: an arithmetic operator never unwinds past itself: the Operator node
\* completes, its operands are not consumed without a result being pushed, and
\* the walker goes on with the next statement.
C6_OperatorNeverUnwinds ==
    [][Visiting("OperatorNode")
       => (/\ Continues
           /\ Len(StackAfter) >= Len(Stack) - 1)]_vars

\* C7: a step changes no stack other than the active one; a StackSwitch
\* changes no stack's contents and a stack it creates starts empty (so a stack
\* left and switched back to holds what it held when it was last active).
C7_StacksPersist ==
    [][/\ \A s \in DOMAIN stacks : s # current_stack => stacks'[s] = stacks[s]
       /\ Visiting("StackSwitchNode")
            => /\ \A s \in DOMAIN stacks : stacks'[s] = stacks[s]
               /\ \A s \in DOMAIN stacks' \ DOMAIN stacks : stacks'[s] = <<>>]_vars

\* back on "main" with values on it while another stack keeps its own values
C7_Witness ==
    /\ current_stack = MAIN
    /\ stacks[MAIN] # <<>>
    /\ \E s \in DOMAIN stacks : s # MAIN /\ stacks[s] # <<>> /\ stacks[s] # stacks[MAIN]

\* C8: a FunctionCall whose name is not in the function table reports the
\* error, leaves stacks, active stack, variables and function table unchanged,
\* and the walker goes on with the next statement.
C8_UndefinedCall ==
    [][(Visiting("FunctionCallNode") /\ CurrentNode.name \notin DOMAIN functions)
       => (/\ output' = Append(output, [t |-> NOT_DEFINED, v |-> StrV(CurrentNode.name)])
           /\ stacks' = stacks
           /\ current_stack' = current_stack
           /\ variables' = variables
           /\ functions' = functions
           /\ Continues)]_vars

\* a name reported as undefined by a call and defined later in the same run
C8_Witness ==
    \E i \in 1..Len(output) :
        /\ output[i].t = NOT_DEFINED
        /\ output[i].v.s \in DOMAIN functions

\* C9: a FunctionDef binds its name to its body and nothing else changes the
\* function table; a call of a defined name starts on the body the table holds
\* at that moment; a body being walked is never replaced, so a call in progress
\* when its name is redefined finishes the body it started with.
C9_LatestBody ==
    /\ [][/\ Visiting("FunctionDefNode")
               => /\ DOMAIN functions' = DOMAIN functions \cup {CurrentNode.name}
                  /\ functions'[CurrentNode.name] = CurrentNode.body
                  /\ \A f \in DOMAIN functions :
                        f # CurrentNode.name => functions'[f] = functions[f]
          /\ ~Visiting("FunctionDefNode") => functions' = functions
          /\ (Visiting("FunctionCallNode") /\ CurrentNode.name \in DOMAIN functions)
               => /\ Len(frames') = Len(frames) + 1
                  /\ frames'[Len(frames')] =
                        [body |-> functions[CurrentNode.name], idx |-> 1,
                         fn |-> CurrentNode.name]
          /\ \A i \in 1..Len(frames) :
                i <= Len(frames') => frames'[i].body = frames[i].body
          /\ HasNode => CurrentNode = Top.body[Top.idx]]_vars
    /\ [](code = RedefineInCall /\ pc = "done"
            => stacks[MAIN] = <<IntV(1), IntV(2)>>)

\* a call of f still has statements to run and f is already bound to another body
C9_Witness ==
    /\ HasNode
    /\ Top.fn \in DOMAIN functions
    /\ functions[Top.fn] # Top.body
    /\ Top.idx > 1

\* a text of digits with at most one "."
NumericForm(s) ==
    /\ \A i \in 1..Len(s) : s[i] \in Digits \cup {"."}
    /\ \E i \in 1..Len(s) : s[i] \in Digits
    /\ Cardinality({i \in 1..Len(s) : s[i] = "."}) <= 1

\* v is the number the text s of numeric form denotes
DenotedBy(s, v) ==
    LET j == FindChar(s, 1, ".")
        digits == IF j = 0 THEN s ELSE Slice(s, 1, j - 1) \o Slice(s, j + 1, Len(s))
        places == IF j = 0 THEN 0 ELSE Len(s) - j
    IN  /\ v.k = (IF j = 0 THEN "int" ELSE "float")
        /\ v.n * Pow10(places) = DigitsValue(digits) * v.d

\* C10: a Push of a literal of numeric form puts the number the literal denotes
\* on the active stack, an integer without "." and a floating-point value with
\* one, whatever the variable table holds.
C10_NumericPush ==
    [][(Visiting("PushNode") /\ NumericForm(CurrentNode.name))
       => (/\ pc' = "running"
           /\ Len(StackAfter) = Len(Stack) + 1
           /\ DenotedBy(CurrentNode.name, TopOf(StackAfter)))]_vars

(***************************************************************************)
(* Reference semantics: the statements of a list evaluated in order on the *)
(* runtime state, a called function's stored body and a conditional's body *)
(* evaluated in place.  A result is [rt, err]; the results form a set      *)
(* because an InputNode may read any line.                                 *)
(***************************************************************************)
RECURSIVE WalkInPlace(_, _, _)
RECURSIVE VisitInPlace(_, _, _)

\* the results of evaluating `node` at nesting depth `depth` after result o
VisitInPlace(o, node, depth) ==
    LET rt == o.rt
        done(out) == [rt |-> out.rt, err |-> out.err]
    IN  IF o.err # "" THEN {o}
        ELSE IF depth > MaxDepth THEN {[rt |-> rt, err |-> "RecursionError"]}
        ELSE CASE node.node = "PushNode" -> {done(visit_PushNode(rt, node))}
               [] node.node = "AssignNode" -> {done(visit_AssignNode(rt, node))}
               [] node.node = "InputNode" ->
                    {done(visit_InputNode(rt, node, r)) : r \in Responses}
               [] node.node = "StackSwitchNode" ->
                    {done(visit_StackSwitchNode(rt, node))}
               [] node.node = "FunctionDefNode" ->
                    {done(visit_FunctionDefNode(rt, node))}
               [] node.node = "OperatorNode" -> {done(visit_OperatorNode(rt, node))}
               [] node.node = "ConditionalNode" ->
                    LET c == visit_ConditionalNode(rt, node)
                    IN  IF c.enter THEN WalkInPlace({o}, node.body, depth + 1)
                        ELSE {done(c)}
               [] node.node = "FunctionCallNode" ->
                    IF node.name \in DOMAIN rt.functions
                    THEN WalkInPlace({o}, rt.functions[node.name], depth + 1)
                    ELSE {[rt |-> Printed(rt, NOT_DEFINED, StrV(node.name)),
                           err |-> ""]}

\* the results of evaluating the statements in order after each result of S
WalkInPlace(S, statements, depth) ==
    IF statements = <<>> THEN S
    ELSE WalkInPlace(UNION {VisitInPlace(o, statements[1], depth) : o \in S},
                     Tail(statements), depth)

FreshRuntime ==
    [stacks |-> (MAIN :> <<>>), current_stack |-> MAIN, variables |-> <<>>,
     functions |-> <<>>, output |-> <<>>]

\* the results of a whole run of a source text under the reference semantics
RunInPlace(source) ==
    LET lexed == tokenize(source)
        ast == parse(lexed.tokens)
    IN  IF ~lexed.ok THEN {[rt |-> FreshRuntime, err |-> "RuntimeError"]}
        ELSE IF ~ast.ok THEN {[rt |-> FreshRuntime, err |-> ast.err]}
        ELSE WalkInPlace({[rt |-> FreshRuntime, err |-> ""]}, ast.statements, 1)

Finished == pc \in {"done", "failed"}

\* C11: calling a defined function is evaluating its stored body in place: every
\* run ends in the stacks, active stack, variables, function table and output
\* that evaluating each called body's statements in order at the call site
\* gives, with nothing of the body's effects undone when the call returns.
C11_CallInPlace ==
    Finished => [rt |-> RT, err |-> error] \in RunInPlace(code)

\* a finished run in which a called body multiplied on "main" and switched the
\* active stack, both still in effect after the call returned
C11_Witness ==
    /\ pc = "done"
    /\ code = SwitchThenCall
    /\ current_stack = <<"s">>
    /\ stacks[MAIN] = <<IntV(10)>>
    /\ stacks[<<"s">>] = <<StrV(<<"x">>)>>

\* the comparison of a conditional holds for second-from-top a and top b
Holds(ct, a, b) ==
    CASE ct = <<"=">> -> PyEq(a, b)
      [] ct = <<"!">> -> ~PyEq(a, b)
      [] ct = <<"<">> -> Orderable(a, b) /\ PyLt(a, b)
      [] ct = <<">">> -> Orderable(a, b) /\ PyLt(b, a)

RuntimeSame ==
    UNCHANGED <<stacks, current_stack, variables, functions, output>>

BodyEntered(node) ==
    /\ pc' = "running"
    /\ error' = error
    /\ frames' = Append(Advanced, [body |-> node.body, idx |-> 1, fn |-> <<>>])

\* C12: a Conditional runs its body exactly when the active stack holds at
\* least two values and the comparison holds for a (second-from-top) and b
\* (top); the comparison pops nothing, so the body starts on the unchanged
\* stack; with fewer than two values or a comparison that does not hold the
\* runtime state is unchanged, nothing is reported and the walker goes on.
C12_Conditional ==
    [][Visiting("ConditionalNode")
       => /\ RuntimeSame
          /\ IF /\ Len(Stack) >= 2
                /\ Holds(CurrentNode.name, Stack[Len(Stack) - 1], TopOf(Stack))
             THEN BodyEntered(CurrentNode)
             ELSE Continues]_vars

\* the same with operands the host can order
C12_OrderableOnly ==
    [][(/\ Visiting("ConditionalNode")
        /\ (Len(Stack) >= 2 /\ CurrentNode.name \in {<<"<">>, <<">">>}
              => Orderable(Stack[Len(Stack) - 1], TopOf(Stack))))
       => /\ RuntimeSame
          /\ IF /\ Len(Stack) >= 2
                /\ Holds(CurrentNode.name, Stack[Len(Stack) - 1], TopOf(Stack))
             THEN BodyEntered(CurrentNode)
             ELSE Continues]_vars

\* table t with name bound to value v and every other binding kept
Bound(t, name, v) ==
    [y \in DOMAIN t \cup {name} |-> IF y = name THEN v ELSE t[y]]

\* the binding of name x is not the same after the step
Rebinds(x) ==
    \/ x \in DOMAIN variables /\ x \notin DOMAIN variables'
    \/ x \notin DOMAIN variables /\ x \in DOMAIN variables'
    \/ x \in DOMAIN variables /\ x \in DOMAIN variables' /\ variables'[x] # variables[x]

C14_PopAndPrint ==
    [][Visiting("OperatorNode")
       => /\ CurrentNode.name = <<"%">>
             => /\ Continues
                /\ UNCHANGED <<current_stack, variables, functions, output>>
                /\ DOMAIN stacks' = DOMAIN stacks
                /\ \A s \in DOMAIN stacks :
                      stacks'[s] = IF s = current_stack /\ Stack # <<>>
                                   THEN SubSeq(Stack, 1, Len(Stack) - 1)
                                   ELSE stacks[s]
          /\ CurrentNode.name = <<"$">>
             => /\ Continues
                /\ UNCHANGED <<stacks, current_stack, variables, functions>>
                /\ output' = IF Stack # <<>>
                             THEN Append(output, [t |-> "print", v |-> TopOf(Stack)])
                             ELSE output]_vars

\* a pop has taken the top value off a stack of two
C14_Witness ==
    /\ pc = "done"
    /\ code = <<"&", "[", "1", "]", "&", "[", "\"", "a", "\"", "]", "%">>
    /\ stacks[MAIN] = <<IntV(1)>>
    /\ output = <<>>

\* the source with each alias operator written as its ASCII counterpart
AsciiOf(text) ==
    [i \in 1..Len(text) |->
        CASE text[i] = MINUS_SIGN -> "-"
          [] text[i] = TIMES -> "*"
          [] text[i] = DIVIDE -> "/"
          [] OTHER -> text[i]]

\* C15: the alias operators behave like their ASCII counterparts through the
\* whole pipeline: a finished run of a program ends in a result that the same
\* program written with "-", "*" and "/" can end in.
C15_OperatorAliases ==
    Finished => [rt |-> RT, err |-> error] \in RunInPlace(AsciiOf(code))

\* the same for programs that use no minus sign alias
C15_TimesAndDivideOnly ==
    (Finished /\ ~Contains(code, MINUS_SIGN))
    => [rt |-> RT, err |-> error] \in RunInPlace(AsciiOf(code))

\* a run of a program with an alias operator has finished with its result
C15_TimesAndDivideReached ==
    /\ pc = "done"
    /\ code = <<"&", "[", "1", ".", "5", "]", "&", "[", "1", "]", DIVIDE>>
    /\ stacks[MAIN] = <<FloatV(3, 2)>>

\* the program starts with an input construct and its tree has just been built
InputParsed ==
    /\ pc = "running"
    /\ Len(frames) = 1
    /\ frames[1].idx = 1
    /\ tokenize(code).tokens # <<>>
    /\ tokenize(code).tokens[1].type = "INPUT"

\* the Input node the grammar gives for the construct `^"prompt"~identifier`
InputNodeOf(construct) ==
    LET closing == FindChar(construct, 3, "\"")
    IN  InputNode(Slice(construct, 3, closing - 1),
                  Slice(construct, closing + 2, Len(construct)))

\* C16: for every input construct the lexer accepts, the parser's Input node
\* has the text between the quotes as its prompt and the identifier after the
\* final "~" as its variable name.
C16_InputNode ==
    InputParsed
    => frames[1].body[1] = InputNodeOf(tokenize(code).tokens[1].value)

\* the same for prompts that hold no "~"
C16_PromptWithoutTilde ==
    (/\ InputParsed
     /\ ~Contains(InputNodeOf(tokenize(code).tokens[1].value).prompt, "~"))
    => frames[1].body[1] = InputNodeOf(tokenize(code).tokens[1].value)

\* an input construct with a plain prompt has been parsed
C16_PlainPromptParsed ==
    /\ InputParsed
    /\ frames[1].body[1] = InputNode(<<"p">>, <<"x">>)

RECURSIVE StripFrom(_, _)
\* the text from index i on without its comments: each "#" that is not
\* immediately followed by "[" is dropped together with the rest of its line
StripFrom(s, i) ==
    IF i > Len(s) THEN <<>>
    ELSE IF s[i] = "#" /\ ~(i + 1 <= Len(s) /\ s[i + 1] = "[")
    THEN StripFrom(s, LineEnd(s, i))
    ELSE <<s[i]>> \o StripFrom(s, i + 1)

StripComments(s) == StripFrom(s, 1)

\* the lexer treats text s exactly as it treats text t
LexedAs(s, t) ==
    /\ tokenize(s).ok = tokenize(t).ok
    /\ tokenize(s).tokens = tokenize(t).tokens

\* a "#" with nothing after it on its line
BareHash(s) ==
    \E i \in 1..Len(s) : s[i] = "#" /\ (i = Len(s) \/ s[i + 1] = "\n")

\* C17: every "#" not immediately followed by "[" starts a comment that the
\* lexer discards through the end of the line with no token and no error,
\* whatever follows the "#": the source is lexed exactly as the source without
\* its comments.
C17_CommentsDiscarded ==
    (pc # "start" /\ Contains(code, "#")) => LexedAs(code, StripComments(code))

\* the same for comments that hold at least one character after the "#"
C17_NonEmptyComments ==
    (pc # "start" /\ Contains(code, "#") /\ ~BareHash(code))
    => LexedAs(code, StripComments(code))

\* a program with a non-empty comment has run with the comment discarded
C17_NonEmptyCommentRun ==
    /\ pc = "done"
    /\ Contains(code, "#")
    /\ ~BareHash(code)
    /\ stacks[MAIN] # <<>>

Intros == {"FUNC_DEF_INTRO", "COND_OP"}

RECURSIVE BalancedFrom(_, _, _)
\* from position i on, with `depth` brackets open, every "]" closes an open
\* "[" and every "[" is closed
BalancedFrom(tokens, i, depth) ==
    IF i > Len(tokens) THEN depth = 0
    ELSE IF tokens[i].type = "L_BRACKET" THEN BalancedFrom(tokens, i + 1, depth + 1)
    ELSE IF tokens[i].type = "R_BRACKET"
    THEN depth > 0 /\ BalancedFrom(tokens, i + 1, depth - 1)
    ELSE BalancedFrom(tokens, i + 1, depth)

Balanced(tokens) == BalancedFrom(tokens, 1, 0)

\* every definition or conditional intro is immediately followed by "["
IntrosFollowed(tokens) ==
    \A i \in 1..Len(tokens) :
        tokens[i].type \in Intros
        => i < Len(tokens) /\ tokens[i + 1].type = "L_BRACKET"

\* every "[" immediately follows a definition or conditional intro
BracketsIntroduced(tokens) ==
    \A i \in 1..Len(tokens) :
        tokens[i].type = "L_BRACKET" => i > 1 /\ tokens[i - 1].type \in Intros

RECURSIVE MatchingFrom(_, _, _)
\* position of the "]" that closes the innermost of `depth` brackets open at i
MatchingFrom(tokens, i, depth) ==
    IF i > Len(tokens) THEN 0
    ELSE IF tokens[i].type = "L_BRACKET" THEN MatchingFrom(tokens, i + 1, depth + 1)
    ELSE IF tokens[i].type = "R_BRACKET"
    THEN (IF depth = 1 THEN i ELSE MatchingFrom(tokens, i + 1, depth - 1))
    ELSE MatchingFrom(tokens, i + 1, depth)

RECURSIVE Between(_, _, _)
\* the statements the tokens lo..hi spell, each body being the statements
\* between its "[" and the matching "]"
Between(tokens, lo, hi) ==
    IF lo > hi THEN <<>>
    ELSE IF tokens[lo].type \in Intros
    THEN LET close == MatchingFrom(tokens, lo + 2, 1)
             body == Between(tokens, lo + 2, close - 1)
             value == tokens[lo].value
         IN  <<IF tokens[lo].type = "FUNC_DEF_INTRO"
               THEN FunctionDefNode(Slice(value, 2, Len(value)), body)
               ELSE ConditionalNode(value, body)>>
             \o Between(tokens, close + 1, hi)
    ELSE <<LeafNode(tokens[lo].type, tokens[lo].value)>> \o Between(tokens, lo + 1, hi)

\* the parser succeeds with its cursor at the end and each body holding exactly
\* the statements between its brackets
ParsedByBrackets(tokens) ==
    /\ parse(tokens).ok
    /\ parse(tokens).pos = Len(tokens) + 1
    /\ parse(tokens).statements = Between(tokens, 1, Len(tokens))

\* the parser has just returned the program's tree to the walker
JustParsed == pc = "running" /\ Len(frames) = 1 /\ frames[1].idx = 1

\* the parser has just raised
ParseFailed == pc = "failed" /\ error \in {"SyntaxError", "ValueError"}

\* C18 as stated: for every token sequence with balanced brackets and every
\* intro immediately followed by "[", the parser succeeds with its cursor at
\* the end and every body is exactly the statements between its "[" and the
\* matching "]".
C18_AsStated ==
    (/\ JustParsed \/ ParseFailed
     /\ Balanced(tokenize(code).tokens)
     /\ IntrosFollowed(tokenize(code).tokens))
    => (/\ JustParsed
        /\ ParsedByBrackets(tokenize(code).tokens)
        /\ frames[1].body = parse(tokenize(code).tokens).statements)

\* C18: for every token sequence with balanced brackets in which every intro
\* is immediately followed by "[" and every "[" immediately follows an intro,
\* the parser succeeds with its cursor at the end of the tokens and the body
\* of each FunctionDef or Conditional node is exactly the statements between
\* its "[" and the matching "]", at every nesting depth.
C18_NestedBodies ==
    (/\ JustParsed \/ ParseFailed
     /\ Balanced(tokenize(code).tokens)
     /\ IntrosFollowed(tokenize(code).tokens)
     /\ BracketsIntroduced(tokenize(code).tokens))
    => (/\ JustParsed
        /\ ParsedByBrackets(tokenize(code).tokens)
        /\ frames[1].body = parse(tokenize(code).tokens).statements)

\* a program with a body inside a body has been parsed and is being walked
C18_Witness ==
    /\ JustParsed
    /\ Balanced(tokenize(code).tokens)
    /\ IntrosFollowed(tokenize(code).tokens)
    /\ BracketsIntroduced(tokenize(code).tokens)
    /\ \E i \in 1..Len(frames[1].body) :
          \E j \in 1..Len(frames[1].body[i].body) :
              /\ frames[1].body[i].body[j].node \in {"ConditionalNode", "FunctionDefNode"}
              /\ j < Len(frames[1].body[i].body)

RECURSIVE HasCall(_)
\* a FunctionCall node occurs in the statements, at any nesting depth
HasCall(statements) ==
    \E i \in 1..Len(statements) :
        \/ statements[i].node = "FunctionCallNode"
        \/ HasCall(statements[i].body)

RECURSIVE Visits(_)
\* the visits and returns a statement list can still cause when no function is
\* called: one per statement, plus for each conditional those of its body and
\* the return from it
Visits(statements) ==
    IF statements = <<>> THEN 0
    ELSE 1 + (IF statements[1].node = "ConditionalNode"
              THEN Visits(statements[1].body) + 1 ELSE 0)
           + Visits(Tail(statements))

RECURSIVE Remaining(_)
\* the visits and returns still ahead of the walker with call stack fs
Remaining(fs) ==
    IF fs = <<>> THEN 0
    ELSE LET f == fs[Len(fs)]
         IN  Visits(Slice(f.body, f.idx, Len(f.body))) + 1
             + Remaining(SubSeq(fs, 1, Len(fs) - 1))

\* the program being walked holds no FunctionCall node
WalkingWithoutCalls == pc = "running" /\ frames # <<>> /\ ~HasCall(frames[1].body)

NodeClasses ==
    {"PushNode", "OperatorNode", "AssignNode", "InputNode", "ConditionalNode",
     "FunctionDefNode", "FunctionCallNode", "StackSwitchNode"}

\* the walker is not stuck: it has a statement of a known class to visit (or to
\* refuse for depth), or a statement list to return from
CanStep ==
    /\ frames # <<>>
    /\ Top.idx <= Len(Top.body) => Top.body[Top.idx].node \in NodeClasses

\* C19: evaluation of a program without FunctionCall nodes terminates: while it
\* runs a step is always possible, and every step either ends the run or
\* uses up one of the finitely many visits that remain, each node being
\* evaluated at most once in source order and a conditional body at most once.
C19_Terminates ==
    [][/\ WalkingWithoutCalls' => CanStep'
       /\ WalkingWithoutCalls
          => \/ pc' \in {"done", "failed"}
             \/ Remaining(frames') < Remaining(frames)]_vars

\* a program without calls has run to its end through a conditional body
C19_Witness ==
    /\ pc = "done"
    /\ ~HasCall(parse(tokenize(code).tokens).statements)
    /\ \E i \in 1..Len(parse(tokenize(code).tokens).statements) :
          parse(tokenize(code).tokens).statements[i].node = "ConditionalNode"
    /\ output = <<[t |-> "print", v |-> StrV(<<"e", "q">>)]>>

\* the contents of a stack that existed before the step differ after it
StackContentsChange ==
    \E s \in DOMAIN stacks : s \notin DOMAIN stacks' \/ stacks'[s] # stacks[s]

\* C20: each node kind writes only its own part of the runtime state, at every
\* nesting depth: the variable table changes only in Assign and Input steps,
\* the function table only in FunctionDef steps (which store the body without
\* running it and change no stack, no variable and no output), the active
\* stack's name only in StackSwitch steps, and the contents of a stack only in
\* Push and Operator steps.
C20_WritesOwnPart ==
    [][/\ variables' # variables => Visiting("AssignNode") \/ Visiting("InputNode")
       /\ functions' # functions => Visiting("FunctionDefNode")
       /\ Visiting("FunctionDefNode")
          => /\ Continues
             /\ UNCHANGED <<stacks, current_stack, variables, output>>
             /\ functions' = Bound(functions, CurrentNode.name, CurrentNode.body)
       /\ current_stack' # current_stack => Visiting("StackSwitchNode")
       /\ StackContentsChange => Visiting("PushNode") \/ Visiting("OperatorNode")]_vars

\* inside a called function's body, after a definition, a push and an
\* assignment have each written their part
C20_Witness ==
    /\ pc = "running"
    /\ Len(frames) = 2
    /\ frames[2].fn = <<"f">>
    /\ <<"f">> \in DOMAIN functions
    /\ variables = (<<"x">> :> IntV(3))
    /\ stacks[MAIN] = <<IntV(3), IntV(4)>>

====
